---- MODULE Spec2Model ----
(***************************************************************************)
(* DreamCanvas+ (src/app.py): the "Create Story Video" pipeline of the     *)
(* Streamlit application, run by two browser sessions against one shared   *)
(* outputs/ directory, together with the colour-to-emotion heuristic.      *)
(*                                                                         *)
(* A text is a sequence of string tokens ("\n" is the line break), so that *)
(* the f-string templating of the prompts is a concatenation and not the   *)
(* identity. A path is the tuple os.path.join builds.  A file's content is *)
(* a record naming the session whose data it holds.                        *)
(***************************************************************************)
EXTENDS Integers, Sequences, FiniteSets, TLC

\* The two sessions (script threads) the host serves at once.
Runs == {1, 2}

\* Longest audio track (in seconds) the text-to-speech capability returns.
MaxDur == 2

\* How far around each threshold of the colour rules the channels are sampled.
Margin == 1

\* ---------------------------------------------------------------- values

NoText == <<>>
NoPath == <<>>
PyNone == <<"None">>

Names == {"a.png", "b.png"}

os_path_join(dir, name) == <<dir, name>>

AudioPath == os_path_join("outputs", "audio.wav")

VideoPath == os_path_join("outputs", "final_video.mp4")

Paths == {os_path_join("outputs", n) : n \in Names} \cup {AudioPath, VideoPath}

NoFile == [writer |-> 0, image |-> 0, audio |-> 0, adur |-> 0, dur |-> 0]

ImageFile(r) == [writer |-> r, image |-> r, audio |-> 0, adur |-> 0, dur |-> 0]

AudioFile(r, d) == [writer |-> r, image |-> 0, audio |-> r, adur |-> d, dur |-> d]

\* The dominant colour of the drawing each session uploads.
DrawingColor == << <<220, 40, 30>>, <<30, 200, 40>> >>

CaptionPrompt == <<"Describe this drawing: ">>

GeneratedCaptions == { <<"A red house on a hill">> }

GeneratedStories == { <<"Once upon a time", "\n", "The end">> }

FailStatus == 503

StageOrder == <<"caption", "emotion", "story", "audio", "video", "description">>

\* What the text-generation endpoint can answer: a parseable 200, a 200 whose
\* body is not the expected JSON, a non-200 status, or requests.post raising.
TextResponses(gen) ==
    {[kind |-> "ok", status |-> 200, text |-> t] : t \in gen}
    \cup {[kind |-> "badbody", status |-> 200, text |-> NoText],
          [kind |-> "status", status |-> FailStatus, text |-> NoText],
          [kind |-> "raise", status |-> 0, text |-> NoText]}

TtsResponses ==
    {[kind |-> "ok", status |-> 200, dur |-> d] : d \in 1..MaxDur}
    \cup {[kind |-> "status", status |-> FailStatus, dur |-> 0],
          [kind |-> "raise", status |-> 0, dur |-> 0]}

NoRequest == [api |-> "none", model |-> "", body |-> <<>>, hung |-> FALSE]

NoDesc == [caption |-> NoText, emotion |-> "", summary |-> NoText]

NoClip == [image |-> 0, audio |-> 0, adur |-> 0, dur |-> 0]

\* ------------------------------------------------------- pure functions

Range(s) == {s[i] : i \in 1..Len(s)}

IsPrefix(s, t) == Len(s) <= Len(t) /\ \A i \in 1..Len(s) : s[i] = t[i]

\* The request hf_text_generation posts: json=payload carries the prompt.
TextRequest(prompt) ==
    [api |-> "text", model |-> "gpt2", body |-> <<prompt>>, hung |-> FALSE]

\* The request hf_tts posts: payload is built but not passed to requests.post.
TtsRequest(text) ==
    [api |-> "tts", model |-> "tts_transformer", body |-> <<>>, hung |-> FALSE]

\* hf_text_generation once requests.post has returned resp.
hf_text_generation(prompt, resp) ==
    IF resp.status = 200
    THEN IF resp.kind = "ok"
         THEN [ret |-> resp.text, warn |-> {}]
         ELSE [ret |-> prompt, warn |-> {}]
    ELSE [ret |-> prompt, warn |-> {<<"HF text gen failed", resp.status>>}]

\* hf_tts once requests.post has returned resp, for session r on file system fs.
hf_tts(fs, r, resp) ==
    IF resp.status = 200
    THEN [ret |-> AudioPath,
          fs |-> [fs EXCEPT ![AudioPath] = AudioFile(r, resp.dur)],
          warn |-> {}]
    ELSE [ret |-> PyNone, fs |-> fs,
          warn |-> {<<"HF TTS failed", resp.status>>}]

get_dominant_color(fs, path) == DrawingColor[fs[path].image]

infer_emotion_from_color_swapped(c) ==
    IF c[3] > 150 THEN "calm"
    ELSE IF c[1] > 200 /\ c[2] < 100 THEN "excited"
    ELSE IF c[2] > 150 THEN "happy"
    ELSE "neutral"

infer_emotion_from_color(c) ==
    IF c[1] > 200 /\ c[2] < 100 THEN "excited"
    ELSE IF c[3] > 150 THEN "calm"
    ELSE IF c[2] > 150 THEN "happy"
    ELSE "neutral"

StoryPrompt(cap, emo) ==
    <<"Create a short children's story inspired by this caption: '">>
    \o cap \o <<"' with emotion '", emo, "'">>

Capitalize(e) ==
    CASE e = "excited" -> "Excited"
      [] e = "calm" -> "Calm"
      [] e = "happy" -> "Happy"
      [] e = "neutral" -> "Neutral"
      [] OTHER -> e

RECURSIVE FirstLine(_)
FirstLine(s) ==
    IF s = <<>> \/ Head(s) = "\n" THEN <<>>
    ELSE <<Head(s)>> \o FirstLine(Tail(s))

auto_generate_description(cap, emo, sto) ==
    [caption |-> cap, emotion |-> Capitalize(emo), summary |-> FirstLine(sto)]

\* audio_clip = AudioFileClip(audio_path)
AudioFileClip(fs, path) ==
    [image |-> 0, audio |-> fs[path].audio, adur |-> fs[path].adur,
     dur |-> fs[path].adur]

ComposeClip_fixed(fs, ipath, aclip) ==
    [image |-> fs[ipath].image, audio |-> aclip.audio, adur |-> aclip.adur,
     dur |-> 1]

\* ImageClip(image_path).set_duration(audio_clip.duration).set_audio(audio_clip)
ComposeClip(fs, ipath, aclip) ==
    [image |-> fs[ipath].image, audio |-> aclip.audio, adur |-> aclip.adur,
     dur |-> aclip.dur]

\* image_clip.write_videofile(output_path, fps=24)
write_videofile(fs, r, clip) ==
    [fs EXCEPT ![VideoPath] =
        [writer |-> r, image |-> clip.image, audio |-> clip.audio,
         adur |-> clip.adur, dur |-> clip.dur]]

\* ---------------------------------------------------------------- state

VARIABLES
    pc,          \* where each session's script is
    image_path, caption, emotion, story, audio_path, final_video, desc,
    audio_clip, image_clip,   \* the clips generate_final_video builds
    req,         \* the HTTP request each session is blocked in
    warnings,    \* st.warning calls, tagged with the stage that made them
    started, done,   \* stages begun / completed, in order
    error,       \* the stage whose exception reached the except clause
    degraded,    \* stages whose capability did not deliver
    files,       \* the shared outputs/ directory
    color, label \* input and result of the emotion classifier on its own

vars == <<pc, image_path, caption, emotion, story, audio_path, final_video,
          desc, audio_clip, image_clip, req, warnings, started, done, error,
          degraded, files, color, label>>

runvars == <<pc, image_path, caption, emotion, story, audio_path, final_video,
             desc, audio_clip, image_clip, req, warnings, started, done,
             error, degraded, files>>

Init ==
    /\ pc = [r \in Runs |-> "idle"]
    /\ image_path = [r \in Runs |-> NoPath]
    /\ caption = [r \in Runs |-> NoText]
    /\ emotion = [r \in Runs |-> ""]
    /\ story = [r \in Runs |-> NoText]
    /\ audio_path = [r \in Runs |-> NoPath]
    /\ final_video = [r \in Runs |-> NoPath]
    /\ desc = [r \in Runs |-> NoDesc]
    /\ audio_clip = [r \in Runs |-> NoClip]
    /\ image_clip = [r \in Runs |-> NoClip]
    /\ req = [r \in Runs |-> NoRequest]
    /\ warnings = [r \in Runs |-> {}]
    /\ started = [r \in Runs |-> <<>>]
    /\ done = [r \in Runs |-> <<>>]
    /\ error = [r \in Runs |-> ""]
    /\ degraded = [r \in Runs |-> {}]
    /\ files = [p \in Paths |-> NoFile]
    /\ color = <<0, 0, 0>>
    /\ label = ""

\* -------------------------------------------------------------- actions

Tag(stage, ws) == {<<stage, w[1], w[2]>> : w \in ws}

\* Lines 129-133: the script sees an uploaded file and saves it under its name.
Upload(r) ==
    /\ pc[r] = "idle"
    /\ \E n \in Names :
         /\ image_path' = [image_path EXCEPT ![r] = os_path_join("outputs", n)]
         /\ files' = [files EXCEPT ![os_path_join("outputs", n)] = ImageFile(r)]
    /\ pc' = [pc EXCEPT ![r] = "uploaded"]
    /\ UNCHANGED <<caption, emotion, story, audio_path, final_video, desc,
                   audio_clip, image_clip, req, warnings, started, done,
                   error, degraded, color, label>>

\* The button click reruns the script: the image is saved again (129-133),
\* then get_caption posts its request (135-138, 63, 26-29).
Click(r) ==
    /\ pc[r] = "uploaded"
    /\ files' = [files EXCEPT ![image_path[r]] = ImageFile(r)]
    /\ started' = [started EXCEPT ![r] = Append(@, "caption")]
    /\ req' = [req EXCEPT ![r] = TextRequest(CaptionPrompt)]
    /\ pc' = [pc EXCEPT ![r] = "caption"]
    /\ UNCHANGED <<image_path, caption, emotion, story, audio_path,
                   final_video, desc, audio_clip, image_clip, warnings, done,
                   error, degraded, color, label>>

\* requests.post is called without timeout=: a capability that never answers
\* leaves the session blocked in the call.
Hang(r) ==
    /\ pc[r] \in {"caption", "story", "audio"}
    /\ ~req[r].hung
    /\ req' = [req EXCEPT ![r].hung = TRUE]
    /\ UNCHANGED <<pc, image_path, caption, emotion, story, audio_path,
                   final_video, desc, audio_clip, image_clip, warnings,
                   started, done, error, degraded, files, color, label>>

\* An exception raised in stage st reaches the except clause (172-173).
Raise(r, st) ==
    /\ pc' = [pc EXCEPT ![r] = "error"]
    /\ error' = [error EXCEPT ![r] = st]
    /\ req' = [req EXCEPT ![r] = NoRequest]

\* The caption request returns (29-37) and get_caption returns (63, 138).
CaptionReturn(r) ==
    /\ pc[r] = "caption"
    /\ ~req[r].hung
    /\ \E resp \in TextResponses(GeneratedCaptions) :
         IF resp.kind = "raise"
         THEN /\ Raise(r, "caption")
              /\ degraded' = [degraded EXCEPT ![r] = @ \cup {"caption"}]
              /\ UNCHANGED <<caption, warnings, done>>
         ELSE LET res == hf_text_generation(req[r].body[1], resp) IN
              /\ caption' = [caption EXCEPT ![r] = res.ret]
              /\ warnings' = [warnings EXCEPT
                                ![r] = @ \cup Tag("caption", res.warn)]
              /\ done' = [done EXCEPT ![r] = Append(@, "caption")]
              /\ degraded' = [degraded EXCEPT ![r] =
                                IF resp.kind = "ok" THEN @
                                ELSE @ \cup {"caption"}]
              /\ req' = [req EXCEPT ![r] = NoRequest]
              /\ pc' = [pc EXCEPT ![r] = "emotion"]
              /\ UNCHANGED error
    /\ UNCHANGED <<image_path, emotion, story, audio_path, final_video, desc,
                   audio_clip, image_clip, started, files, color, label>>

\* A reordered pipeline: the story is requested before the emotion is inferred.
EmotionStage_skipped(r) ==
    /\ pc[r] = "emotion"
    /\ started' = [started EXCEPT ![r] = Append(@, "story")]
    /\ pc' = [pc EXCEPT ![r] = "storycall"]
    /\ UNCHANGED <<image_path, caption, emotion, story, audio_path,
                   final_video, desc, audio_clip, image_clip, req, warnings,
                   done, error, degraded, files, color, label>>

\* Lines 140-144: dominant colour of the saved file, then the emotion.
EmotionStage(r) ==
    /\ pc[r] = "emotion"
    /\ started' = [started EXCEPT ![r] = Append(@, "emotion")]
    /\ emotion' = [emotion EXCEPT ![r] =
          infer_emotion_from_color(get_dominant_color(files, image_path[r]))]
    /\ done' = [done EXCEPT ![r] = Append(@, "emotion")]
    /\ pc' = [pc EXCEPT ![r] = "storycall"]
    /\ UNCHANGED <<image_path, caption, story, audio_path, final_video, desc,
                   audio_clip, image_clip, req, warnings, error, degraded,
                   files, color, label>>

\* Lines 146-147, 96-97, 26-29: generate_story posts its prompt.
StoryCall(r) ==
    /\ pc[r] = "storycall"
    /\ started' = [started EXCEPT ![r] = Append(@, "story")]
    /\ req' = [req EXCEPT ![r] = TextRequest(StoryPrompt(caption[r], emotion[r]))]
    /\ pc' = [pc EXCEPT ![r] = "story"]
    /\ UNCHANGED <<image_path, caption, emotion, story, audio_path,
                   final_video, desc, audio_clip, image_clip, warnings, done,
                   error, degraded, files, color, label>>

\* The story request returns (29-37, 147-148).
StoryReturn(r) ==
    /\ pc[r] = "story"
    /\ ~req[r].hung
    /\ \E resp \in TextResponses(GeneratedStories) :
         IF resp.kind = "raise"
         THEN /\ Raise(r, "story")
              /\ degraded' = [degraded EXCEPT ![r] = @ \cup {"story"}]
              /\ UNCHANGED <<story, warnings, done>>
         ELSE LET res == hf_text_generation(req[r].body[1], resp) IN
              /\ story' = [story EXCEPT ![r] = res.ret]
              /\ warnings' = [warnings EXCEPT
                                ![r] = @ \cup Tag("story", res.warn)]
              /\ done' = [done EXCEPT ![r] = Append(@, "story")]
              /\ degraded' = [degraded EXCEPT ![r] =
                                IF resp.kind = "ok" THEN @
                                ELSE @ \cup {"story"}]
              /\ req' = [req EXCEPT ![r] = NoRequest]
              /\ pc' = [pc EXCEPT ![r] = "ttscall"]
              /\ UNCHANGED error
    /\ UNCHANGED <<image_path, caption, emotion, audio_path, final_video,
                   desc, audio_clip, image_clip, started, files, color, label>>

\* Lines 150-151, 44-47: hf_tts(story) posts its request.
TtsCall(r) ==
    /\ pc[r] = "ttscall"
    /\ started' = [started EXCEPT ![r] = Append(@, "audio")]
    /\ req' = [req EXCEPT ![r] = TtsRequest(story[r])]
    /\ pc' = [pc EXCEPT ![r] = "audio"]
    /\ UNCHANGED <<image_path, caption, emotion, story, audio_path,
                   final_video, desc, audio_clip, image_clip, warnings, done,
                   error, degraded, files, color, label>>

\* The TTS request returns (48-54), then lines 152-157: with no audio path the
\* warning is shown and everything under "if audio_path:" is skipped.
TtsReturn(r) ==
    /\ pc[r] = "audio"
    /\ ~req[r].hung
    /\ \E resp \in TtsResponses :
         IF resp.kind = "raise"
         THEN /\ Raise(r, "audio")
              /\ degraded' = [degraded EXCEPT ![r] = @ \cup {"audio"}]
              /\ UNCHANGED <<audio_path, files, warnings, done>>
         ELSE LET res == hf_tts(files, r, resp) IN
              /\ audio_path' = [audio_path EXCEPT ![r] = res.ret]
              /\ files' = res.fs
              /\ warnings' = [warnings EXCEPT ![r] =
                    @ \cup Tag("audio", res.warn)
                      \cup (IF res.ret = PyNone
                            THEN {<<"audio", "TTS failed. Video will be generated without audio.", 0>>}
                            ELSE {})]
              /\ done' = [done EXCEPT ![r] =
                    IF res.ret = PyNone THEN @ ELSE Append(@, "audio")]
              /\ degraded' = [degraded EXCEPT ![r] =
                    IF res.ret = PyNone THEN @ \cup {"audio"} ELSE @]
              /\ req' = [req EXCEPT ![r] = NoRequest]
              /\ pc' = [pc EXCEPT ![r] =
                    IF res.ret = PyNone THEN "end" ELSE "video"]
              /\ UNCHANGED error
    /\ UNCHANGED <<image_path, caption, emotion, story, final_video, desc,
                   audio_clip, image_clip, started, color, label>>

\* Lines 157-160 and 118-122: generate_final_video, or its encoder raising.
VideoStage(r) ==
    /\ pc[r] = "video"
    /\ started' = [started EXCEPT ![r] = Append(@, "video")]
    /\ \E ok \in BOOLEAN :
         IF ok
         THEN LET aclip == AudioFileClip(files, audio_path[r])
                  iclip == ComposeClip(files, image_path[r], aclip) IN
              /\ audio_clip' = [audio_clip EXCEPT ![r] = aclip]
              /\ image_clip' = [image_clip EXCEPT ![r] = iclip]
              /\ files' = write_videofile(files, r, iclip)
              /\ final_video' = [final_video EXCEPT ![r] = VideoPath]
              /\ done' = [done EXCEPT ![r] = Append(@, "video")]
              /\ pc' = [pc EXCEPT ![r] = "desc"]
              /\ UNCHANGED <<error, req, degraded>>
         ELSE /\ Raise(r, "video")
              /\ degraded' = [degraded EXCEPT ![r] = @ \cup {"video"}]
              /\ UNCHANGED <<audio_clip, image_clip, files, final_video, done>>
    /\ UNCHANGED <<image_path, caption, emotion, story, audio_path, desc,
                   warnings, color, label>>

\* Lines 162-170: the description and the download buttons.
DescriptionStage(r) ==
    /\ pc[r] = "desc"
    /\ started' = [started EXCEPT ![r] = Append(@, "description")]
    /\ desc' = [desc EXCEPT ![r] =
                  auto_generate_description(caption[r], emotion[r], story[r])]
    /\ done' = [done EXCEPT ![r] = Append(@, "description")]
    /\ pc' = [pc EXCEPT ![r] = "end"]
    /\ UNCHANGED <<image_path, caption, emotion, story, audio_path,
                   final_video, audio_clip, image_clip, req, warnings, error,
                   degraded, files, color, label>>

\* The steps the script itself takes once the button was clicked.
RunStep(r) ==
    \/ CaptionReturn(r)
    \/ EmotionStage(r)
    \/ StoryCall(r)
    \/ StoryReturn(r)
    \/ TtsCall(r)
    \/ TtsReturn(r)
    \/ VideoStage(r)
    \/ DescriptionStage(r)

Next ==
    \E r \in Runs :
        \/ Upload(r)
        \/ Click(r)
        \/ Hang(r)
        \/ RunStep(r)

Spec == Init /\ [][Next]_vars

\* The script's steps are taken whenever they can be; the user and the
\* capability (Upload, Click, Hang) are under no obligation.
FairSpec == Spec /\ \A r \in Runs : WF_vars(RunStep(r))

\* ------------------------------------------- the classifier on its own

Thresholds == {100, 150, 200}

Channel ==
    {v \in 0..255 :
        \/ v \in {0, 255}
        \/ \E t \in Thresholds : v - t <= Margin /\ t - v <= Margin}

InitEmotion ==
    /\ Init!1 /\ Init!2 /\ Init!3 /\ Init!4 /\ Init!5 /\ Init!6 /\ Init!7
    /\ Init!8 /\ Init!9 /\ Init!10 /\ Init!11 /\ Init!12 /\ Init!13
    /\ Init!14 /\ Init!15 /\ Init!16 /\ Init!17
    /\ color \in Channel \X Channel \X Channel
    /\ label = ""

Classify ==
    /\ label = ""
    /\ label' = infer_emotion_from_color(color)
    /\ UNCHANGED <<runvars, color>>

NextEmotion == Classify

SpecEmotion == InitEmotion /\ [][NextEmotion]_vars

\* ------------------------------------------------------------- outcomes

Terminal(r) == pc[r] \in {"end", "error"}

Has(r, st) == st \in Range(done[r])

Outcome(r) ==
    IF pc[r] = "error" THEN "Failed"
    ELSE IF pc[r] # "end" THEN "Running"
    ELSE IF audio_path[r] = AudioPath /\ final_video[r] = VideoPath
            /\ desc[r] # NoDesc
         THEN "Succeeded"
         ELSE "PartiallySucceeded"

\* --------------------------------------------------------------- claims

\* C1: whenever the Speech Synthesizer returned no audio path, the Video
\* Composer was never invoked and the run ends PartiallySucceeded with audio
\* and video absent but caption, story and description all present.
C1_SkipInvariant ==
    \A r \in Runs :
        (Terminal(r) /\ audio_path[r] = PyNone) =>
            /\ "video" \notin Range(started[r])
            /\ Outcome(r) = "PartiallySucceeded"
            /\ final_video[r] = NoPath
            /\ Has(r, "caption") /\ Has(r, "story")
            /\ Has(r, "description") /\ desc[r] # NoDesc

\* C2: however the caption capability fails, get_caption returns a non-empty
\* fallback caption and the failure never takes the run to the error abort.
C2_CaptionFallback ==
    \A r \in Runs :
        "caption" \in degraded[r] =>
            /\ error[r] # "caption"
            /\ Has(r, "caption") /\ caption[r] # NoText

\* C3: when generate_final_video raises, the description is still composed and
\* the run ends PartiallySucceeded (no video) with caption, story and audio kept.
C3_VideoErrorNonFatal ==
    \A r \in Runs :
        (Terminal(r) /\ "video" \in Range(started[r]) /\ ~Has(r, "video")) =>
            /\ Outcome(r) = "PartiallySucceeded"
            /\ Has(r, "description")
            /\ Has(r, "caption") /\ Has(r, "story") /\ Has(r, "audio")

\* C4: under any interleaving of two runs, a run's video is composed from the
\* image and audio that run itself wrote, and no step replaces a file that
\* another run wrote.
C4_NoCrossRun ==
    [][ /\ \A r \in Runs :
             Has(r, "video")' =>
                 image_clip'[r].audio = r /\ image_clip'[r].image = r
        /\ \A p \in Paths :
             files[p].writer # 0 => files'[p].writer = files[p].writer ]_vars

Vocabulary == {"excited", "calm", "happy", "neutral"}

Rules(c) ==
    << [m |-> c[1] > 200 /\ c[2] < 100, l |-> "excited"],
       [m |-> c[3] > 150, l |-> "calm"],
       [m |-> c[2] > 150, l |-> "happy"],
       [m |-> TRUE, l |-> "neutral"] >>

FirstMatch(c) ==
    LET i == CHOOSE k \in 1..4 :
                 Rules(c)[k].m /\ \A j \in 1..(k - 1) : ~Rules(c)[j].m
    IN Rules(c)[i].l

\* C5: for every RGB triple the classifier returns one label of the fixed
\* vocabulary, the label of the first rule that matches top-to-bottom.
C5_FirstMatch ==
    label # "" => label \in Vocabulary /\ label = FirstMatch(color)

C5_Witness ==
    /\ label = "excited"
    /\ color[3] > 150

\* C6: every started run eventually reaches a terminal state, even when a
\* capability never answers (the wait is bounded by a timeout).
C6_Terminates ==
    \A r \in Runs : (started[r] # <<>>) ~> Terminal(r)

\* C7: stages start and complete in the order caption, emotion, story, audio,
\* video, description, each at most once and none before its predecessor has
\* completed; a run in which every capability succeeds ends Succeeded with all
\* six stages done.
C7_StageOrder ==
    \A r \in Runs :
        /\ IsPrefix(started[r], StageOrder)
        /\ IsPrefix(done[r], StageOrder)
        /\ Len(done[r]) <= Len(started[r])
        /\ Len(started[r]) <= Len(done[r]) + 1
        /\ (Terminal(r) /\ degraded[r] = {}) =>
               Outcome(r) = "Succeeded" /\ done[r] = StageOrder

C7_Witness ==
    \E r \in Runs :
        pc[r] = "end" /\ degraded[r] = {} /\ done[r] = StageOrder

\* C8: by the time a run terminates, every stage that substituted fallback
\* text (caption, story) or reported audio unavailable has emitted a warning.
C8_WarningsSurfaced ==
    \A r \in Runs :
        Terminal(r) =>
            /\ \A st \in {"caption", "story"} :
                 (st \in degraded[r] /\ Has(r, st)) =>
                     \E w \in warnings[r] : w[1] = st
            /\ audio_path[r] = PyNone =>
                     \E w \in warnings[r] : w[1] = "audio"

\* C9: the video generate_final_video produces has exactly the duration of the
\* audio clip it was handed, and its audio track is that same clip.
C9_VideoDuration ==
    /\ \A r \in Runs :
         Has(r, "video") =>
             /\ audio_clip[r].dur \in 1..MaxDur
             /\ image_clip[r].dur = audio_clip[r].dur
             /\ image_clip[r].audio = audio_clip[r].audio
             /\ image_clip[r].adur = audio_clip[r].adur
    /\ files[VideoPath].writer # 0 =>
             files[VideoPath].dur = files[VideoPath].adur

C9_Witness ==
    \E r \in Runs :
        /\ Has(r, "video")
        /\ image_clip[r].dur = MaxDur
        /\ files[VideoPath].writer = r

\* C10: the request the Speech Synthesizer sends carries the story text the
\* Story Generator produced in the same run.
C10_TtsCarriesStory ==
    \A r \in Runs : req[r].api = "tts" => req[r].body = <<story[r]>>

====
